---- MODULE Spec2Model ----
(***************************************************************************)
(* Model of qpy/gates.py: dense operators of an n-qubit register built by  *)
(* Kronecker padding (add_gate), the two-term projector decomposition of   *)
(* controlled gates (control_gate, cnot_nonadj), the padded 4x4 CNOT       *)
(* (cnot_adj), the four-term Toffoli decomposition (TOFFOLI) and the GHZ   *)
(* state generator.  The module is a library of pure functions; the state  *)
(* machine records the last call made by a client, its arguments and what  *)
(* the call returned or raised.  generate_ghz_state is a loop and is       *)
(* modelled statement by statement.                                        *)
(*                                                                         *)
(* Numbers.  Every entry the modelled code can produce is a real number of *)
(* the ring Z[sqrt 2][1/2] (0, 1, -1 and 1/sqrt 2 and their sums and       *)
(* products).  A number is the triple <<a, b, k>> standing for             *)
(* (a + b*sqrt(2)) / 2^k, kept in lowest terms, so that equality of        *)
(* triples is equality of numbers.  The complex gates Y, S, T, Rx, Rz are  *)
(* not used by any function of the module and are not modelled.            *)
(*                                                                         *)
(* Arrays.  A numpy array is [shape |-> <<d>> or <<r, c>>, a |-> entries   *)
(* in row-major order, indexed from 0].                                    *)
(***************************************************************************)
EXTENDS Integers, Sequences, FiniteSets, TLC

\* largest register size num_qubits a client passes
MaxN == 3

----------------------------------------------------------------------------
\* scalar arithmetic of the numeric backend

RECURSIVE Pow2(_)
Pow2(k) == IF k <= 0 THEN 1 ELSE 2 * Pow2(k - 1)

RECURSIVE Norm(_)
Norm(x) ==
  IF x[3] > 0 /\ x[1] % 2 = 0 /\ x[2] % 2 = 0
    THEN Norm(<<x[1] \div 2, x[2] \div 2, x[3] - 1>>)
    ELSE x

NZero == <<0, 0, 0>>
NOne == <<1, 0, 0>>
NMinusOne == <<0 - 1, 0, 0>>
\* 1/np.sqrt(2) = sqrt(2)/2
InvSqrt2 == <<0, 1, 1>>

NAdd(x, y) ==
  LET k == IF x[3] > y[3] THEN x[3] ELSE y[3]
      sx == Pow2(k - x[3])
      sy == Pow2(k - y[3])
  IN  Norm(<<x[1] * sx + y[1] * sy, x[2] * sx + y[2] * sy, k>>)

NMul(x, y) ==
  Norm(<<x[1] * y[1] + 2 * x[2] * y[2], x[1] * y[2] + x[2] * y[1], x[3] + y[3]>>)

----------------------------------------------------------------------------
\* arrays

Vec(s) == [shape |-> <<Len(s)>>, a |-> [k \in 0..(Len(s) - 1) |-> s[k + 1]]]

Mat(rows) ==
  LET r == Len(rows)
      c == Len(rows[1])
  IN  [shape |-> <<r, c>>,
       a |-> [k \in 0..(r * c - 1) |-> rows[(k \div c) + 1][(k % c) + 1]]]

At(M, r, c) == M.a[r * M.shape[2] + c]

\* np.outer(u, v)
Outer(u, v) ==
  LET r == u.shape[1]
      c == v.shape[1]
  IN  [shape |-> <<r, c>>,
       a |-> [k \in 0..(r * c - 1) |-> NMul(u.a[k \div c], v.a[k % c])]]

\* s * A for a scalar s
Scale(s, A) == [shape |-> A.shape, a |-> [k \in DOMAIN A.a |-> NMul(s, A.a[k])]]

\* np.kron(A, B), for two vectors or two matrices
Kron2(A, B) ==
  IF Len(A.shape) = 1
    THEN LET db == B.shape[1]
             d == A.shape[1] * db
         IN  [shape |-> <<d>>,
              a |-> [k \in 0..(d - 1) |-> NMul(A.a[k \div db], B.a[k % db])]]
    ELSE LET rb == B.shape[1]
             cb == B.shape[2]
             r == A.shape[1] * rb
             c == A.shape[2] * cb
         IN  [shape |-> <<r, c>>,
              a |-> [k \in 0..(r * c - 1) |->
                       NMul(At(A, (k \div c) \div rb, (k % c) \div cb),
                            At(B, (k \div c) % rb, (k % c) % cb))]]

RECURSIVE KronFold(_, _)
KronFold(result, ops) ==
  IF ops = <<>> THEN result ELSE KronFold(Kron2(result, Head(ops)), Tail(ops))

\* kron(operators), operators non-empty
kron(operators) == KronFold(Head(operators), Tail(operators))

\* [x] * k: the empty list when k <= 0
Rep(x, k) == IF k <= 0 THEN <<>> ELSE [j \in 1..k |-> x]

RECURSIVE RowSum(_, _, _, _)
RowSum(M, v, r, k) ==
  IF k = 0 THEN NZero
  ELSE NAdd(RowSum(M, v, r, k - 1), NMul(At(M, r, k - 1), v.a[k - 1]))

\* M @ v for a matrix M and a vector v of matching length
MatVec(M, v) ==
  [shape |-> <<M.shape[1]>>,
   a |-> [r \in 0..(M.shape[1] - 1) |-> RowSum(M, v, r, M.shape[2])]]

----------------------------------------------------------------------------
\* what a call returns or raises

NoOp == [shape |-> <<0, 0>>, a |-> <<>>]

MsgDifferent == "Control and Target qubits must be different."
MsgError == "Error"
MsgAdjacent == "Control and Target qubits must be adjacent."
MsgRange == "Control and target qubits must be within range"
MsgBroadcast == "operands could not be broadcast together"
MsgIndex == "list index out of range"
MsgUnbound == "local variable 'operator' referenced before assignment"

Return(op) == [err |-> "none", op |-> op]
Raise(msg) == [err |-> msg, op |-> NoOp]

\* A + B of numpy: elementwise on equal shapes.  Every operand here is a
\* Kronecker product of at least one 2x2 factor, so no dimension is 1 and
\* unequal shapes never broadcast.
Add(A, B) ==
  IF A.shape = B.shape
    THEN Return([shape |-> A.shape, a |-> [k \in DOMAIN A.a |-> NAdd(A.a[k], B.a[k])]])
    ELSE Raise(MsgBroadcast)

\* left-to-right sum t1 + t2 + ... of a non-empty list of arrays
RECURSIVE SumFold(_, _)
SumFold(acc, terms) ==
  IF acc.err # "none" \/ terms = <<>> THEN acc
  ELSE SumFold(Add(acc.op, Head(terms)), Tail(terms))

----------------------------------------------------------------------------
\* basis catalog

zero == Vec(<<NOne, NZero>>)
one == Vec(<<NZero, NOne>>)
I == Mat(<<<<NOne, NZero>>, <<NZero, NOne>>>>)
X == Mat(<<<<NZero, NOne>>, <<NOne, NZero>>>>)
Z == Mat(<<<<NOne, NZero>>, <<NZero, NMinusOne>>>>)
H == Scale(InvSqrt2, Mat(<<<<NOne, NOne>>, <<NOne, NMinusOne>>>>))
cnot == Mat(<<<<NOne, NZero, NZero, NZero>>,
              <<NZero, NOne, NZero, NZero>>,
              <<NZero, NZero, NZero, NOne>>,
              <<NZero, NZero, NOne, NZero>>>>)

----------------------------------------------------------------------------
\* the functions of the module

\* add_gate with the two paddings exchanged (qubit 0 taken as the last factor)
add_gate_swapped_pads(gate, targetq, num_qubits) ==
  LET start_pad == num_qubits - (targetq + 1)
      end_pad == targetq
  IN  kron(Rep(I, start_pad) \o <<gate>> \o Rep(I, end_pad))

add_gate(gate, targetq, num_qubits) ==
  LET start_pad == targetq
      end_pad == num_qubits - (targetq + 1)
  IN  kron(Rep(I, start_pad) \o <<gate>> \o Rep(I, end_pad))

\* control_gate with the projector |0><0| in both terms
control_gate_same_projector(gate, control_qubit, target_qubit, num_qubits) ==
  IF control_qubit = target_qubit THEN Raise(MsgDifferent)
  ELSE IF ~(0 <= control_qubit /\ control_qubit <= num_qubits)
          \/ ~(0 <= target_qubit /\ target_qubit <= num_qubits)
    THEN Raise(MsgError)
  ELSE IF control_qubit < target_qubit
    THEN Add(add_gate(Outer(zero, zero), control_qubit, num_qubits),
             kron(Rep(I, control_qubit) \o <<Outer(zero, zero)>>
                  \o Rep(I, target_qubit - control_qubit - 1) \o <<gate>>
                  \o Rep(I, num_qubits - target_qubit - 1)))
    ELSE Add(add_gate(Outer(zero, zero), control_qubit, num_qubits),
             kron(Rep(I, target_qubit) \o <<gate>>
                  \o Rep(I, control_qubit - target_qubit - 1) \o <<Outer(zero, zero)>>
                  \o Rep(I, num_qubits - control_qubit - 1)))

\* control_gate without the test control_qubit == target_qubit
control_gate_no_equality_test(gate, control_qubit, target_qubit, num_qubits) ==
  IF ~(0 <= control_qubit /\ control_qubit <= num_qubits)
     \/ ~(0 <= target_qubit /\ target_qubit <= num_qubits)
    THEN Raise(MsgError)
  ELSE IF control_qubit < target_qubit
    THEN Add(add_gate(Outer(zero, zero), control_qubit, num_qubits),
             kron(Rep(I, control_qubit) \o <<Outer(one, one)>>
                  \o Rep(I, target_qubit - control_qubit - 1) \o <<gate>>
                  \o Rep(I, num_qubits - target_qubit - 1)))
    ELSE Add(add_gate(Outer(zero, zero), control_qubit, num_qubits),
             kron(Rep(I, target_qubit) \o <<gate>>
                  \o Rep(I, control_qubit - target_qubit - 1) \o <<Outer(one, one)>>
                  \o Rep(I, num_qubits - control_qubit - 1)))

control_gate(gate, control_qubit, target_qubit, num_qubits) ==
  IF control_qubit = target_qubit THEN Raise(MsgDifferent)
  ELSE IF ~(0 <= control_qubit /\ control_qubit <= num_qubits)
          \/ ~(0 <= target_qubit /\ target_qubit <= num_qubits)
    THEN Raise(MsgError)
  ELSE IF control_qubit < target_qubit
    THEN Add(add_gate(Outer(zero, zero), control_qubit, num_qubits),
             kron(Rep(I, control_qubit) \o <<Outer(one, one)>>
                  \o Rep(I, target_qubit - control_qubit - 1) \o <<gate>>
                  \o Rep(I, num_qubits - target_qubit - 1)))
    ELSE Add(add_gate(Outer(zero, zero), control_qubit, num_qubits),
             kron(Rep(I, target_qubit) \o <<gate>>
                  \o Rep(I, control_qubit - target_qubit - 1) \o <<Outer(one, one)>>
                  \o Rep(I, num_qubits - control_qubit - 1)))

\* cnot_adj with end_padding one too long
cnot_adj_long_end(controlq, targetq, num_qubits) ==
  IF targetq # controlq + 1 THEN Raise(MsgAdjacent)
  ELSE LET start_padding == controlq
           end_padding == num_qubits - targetq
       IN  Return(kron(Rep(I, start_padding) \o <<cnot>> \o Rep(I, end_padding)))

\* cnot_adj accepting the target on either side of the control
cnot_adj_either_side(controlq, targetq, num_qubits) ==
  IF targetq # controlq + 1 /\ targetq # controlq - 1 THEN Raise(MsgAdjacent)
  ELSE LET start_padding == controlq
           end_padding == num_qubits - (targetq + 1)
       IN  Return(kron(Rep(I, start_padding) \o <<cnot>> \o Rep(I, end_padding)))

cnot_adj(controlq, targetq, num_qubits) ==
  IF targetq # controlq + 1 THEN Raise(MsgAdjacent)
  ELSE LET start_padding == controlq
           end_padding == num_qubits - (targetq + 1)
       IN  Return(kron(Rep(I, start_padding) \o <<cnot>> \o Rep(I, end_padding)))

\* cnot_nonadj assembling the control-on term in control-first order in both
\* branches
cnot_nonadj_one_order(control_qubit, target_qubit, num_qubits) ==
  IF control_qubit = target_qubit THEN Raise(MsgDifferent)
  ELSE IF ~(0 <= control_qubit /\ control_qubit <= num_qubits)
          \/ ~(0 <= target_qubit /\ target_qubit <= num_qubits)
    THEN Raise(MsgError)
  ELSE IF control_qubit < target_qubit
    THEN Add(kron(Rep(I, control_qubit) \o <<Outer(zero, zero)>>
                  \o Rep(I, num_qubits - control_qubit - 1)),
             kron(Rep(I, control_qubit) \o <<Outer(one, one)>>
                  \o Rep(I, target_qubit - control_qubit - 1) \o <<X>>
                  \o Rep(I, num_qubits - target_qubit - 1)))
    ELSE Add(kron(Rep(I, control_qubit) \o <<Outer(zero, zero)>>
                  \o Rep(I, num_qubits - control_qubit - 1)),
             kron(Rep(I, target_qubit) \o <<Outer(one, one)>>
                  \o Rep(I, control_qubit - target_qubit - 1) \o <<X>>
                  \o Rep(I, num_qubits - control_qubit - 1)))

cnot_nonadj(control_qubit, target_qubit, num_qubits) ==
  IF control_qubit = target_qubit THEN Raise(MsgDifferent)
  ELSE IF ~(0 <= control_qubit /\ control_qubit <= num_qubits)
          \/ ~(0 <= target_qubit /\ target_qubit <= num_qubits)
    THEN Raise(MsgError)
  ELSE IF control_qubit < target_qubit
    THEN Add(kron(Rep(I, control_qubit) \o <<Outer(zero, zero)>>
                  \o Rep(I, num_qubits - control_qubit - 1)),
             kron(Rep(I, control_qubit) \o <<Outer(one, one)>>
                  \o Rep(I, target_qubit - control_qubit - 1) \o <<X>>
                  \o Rep(I, num_qubits - target_qubit - 1)))
    ELSE Add(kron(Rep(I, control_qubit) \o <<Outer(zero, zero)>>
                  \o Rep(I, num_qubits - control_qubit - 1)),
             kron(Rep(I, target_qubit) \o <<X>>
                  \o Rep(I, control_qubit - target_qubit - 1) \o <<Outer(one, one)>>
                  \o Rep(I, num_qubits - control_qubit - 1)))

\* the controls taken in the order given
UnsortedControls(control1, control2) == <<control1, control2>>

\* sorted([control1, control2])
SortedControls(control1, control2) ==
  IF control1 <= control2 THEN <<control1, control2>> ELSE <<control2, control1>>

\* the padding lists of term1 .. term4 of TOFFOLI, <<>> when no branch is taken
ToffoliTerms(control1, control2, target, num_qubits) ==
  LET c1 == SortedControls(control1, control2)[1]
      c2 == SortedControls(control1, control2)[2]
      P0 == Outer(zero, zero)
      P1 == Outer(one, one)
      After(pa, pb, g) ==
        Rep(I, c1) \o <<pa>> \o Rep(I, c2 - c1 - 1) \o <<pb>>
        \o Rep(I, target - c2 - 1) \o <<g>> \o Rep(I, num_qubits - target - 1)
      Between(pa, pb, g) ==
        Rep(I, c1) \o <<pa>> \o Rep(I, target - c1 - 1) \o <<g>>
        \o Rep(I, c2 - target - 1) \o <<pb>> \o Rep(I, num_qubits - c2 - 1)
      Before(pa, pb, g) ==
        Rep(I, target) \o <<g>> \o Rep(I, c1 - target - 1) \o <<pa>>
        \o Rep(I, c2 - c1 - 1) \o <<pb>> \o Rep(I, num_qubits - c2 - 1)
  IN  IF c2 < target
        THEN <<After(P0, P0, I), After(P1, P0, I), After(P0, P1, I), After(P1, P1, X)>>
      ELSE IF c1 < target /\ target < c2
        THEN <<Between(P0, P0, I), Between(P1, P0, I), Between(P0, P1, I),
               Between(P1, P1, X)>>
      ELSE IF target < c1
        THEN <<Before(P0, P0, I), Before(P1, P0, I), Before(P0, P1, I),
               Before(P1, P1, X)>>
      ELSE <<>>

TOFFOLI(control1, control2, target, num_qubits) ==
  IF control1 = target \/ control2 = target THEN Raise(MsgDifferent)
  ELSE IF ~(0 <= control1 /\ control1 <= num_qubits - 1)
          \/ ~(0 <= target /\ target <= num_qubits - 1)
          \/ ~(0 <= control2 /\ control2 <= num_qubits - 1)
    THEN Raise(MsgRange)
  ELSE LET terms == ToffoliTerms(control1, control2, target, num_qubits)
       IN  IF terms = <<>> THEN Raise(MsgUnbound)
           ELSE SumFold(Return(kron(terms[1])),
                        <<kron(terms[2]), kron(terms[3]), kron(terms[4])>>)

\* generate_ghz_state, statement by statement
GhzZeros(num_qubits) == kron(Rep(zero, num_qubits))

\* the Hadamard on the last qubit, as the comment on the statement says
GhzHadamardLast(state, num_qubits) ==
  MatVec(add_gate(H, num_qubits - 1, num_qubits), state)

GhzHadamard(state, num_qubits) == MatVec(add_gate(H, 0, num_qubits), state)

GhzCnot(state, i, num_qubits) == MatVec(cnot_adj(i, i + 1, num_qubits).op, state)

----------------------------------------------------------------------------
\* the client

VARIABLES
  call,       \* the last call: function and arguments
  result,     \* what it returned or raised
  pc,         \* "call", "done", or the position inside generate_ghz_state
  ghz_state,  \* local ghz_state of generate_ghz_state
  i           \* loop variable of generate_ghz_state

vars == <<call, result, pc, ghz_state, i>>

\* the 2x2 gates a client passes; "L" is |0><1|, a non-symmetric matrix
GateNames == {"I", "X", "Z", "H", "L"}

GateOf(name) ==
  CASE name = "I" -> I
    [] name = "X" -> X
    [] name = "Z" -> Z
    [] name = "H" -> H
    [] OTHER -> Outer(zero, one)

Sizes == 0..MaxN

\* qubit indices a client passes for a register of n qubits: the valid ones,
\* one below, n itself and one above
Indices(n) == (0 - 1)..(n + 1)

NoVec == [shape |-> <<0>>, a |-> <<>>]

Call(fn, gate, control, control2, target, n) ==
  [fn |-> fn, gate |-> gate, control |-> control, control2 |-> control2,
   target |-> target, n |-> n]

\* the calls a client can make
AddGateCalls ==
  UNION {{Call("add_gate", g, 0, 0, t, n) : t \in Indices(n), g \in GateNames} : n \in Sizes}

ControlGateCalls ==
  UNION {{Call("control_gate", g, c, 0, t, n) :
            c \in Indices(n), t \in Indices(n), g \in GateNames} : n \in Sizes}

CnotAdjCalls ==
  UNION {{Call("cnot_adj", "-", c, 0, t, n) : c \in Indices(n), t \in Indices(n)} :
           n \in Sizes}

CnotNonadjCalls ==
  UNION {{Call("cnot_nonadj", "-", c, 0, t, n) : c \in Indices(n), t \in Indices(n)} :
           n \in Sizes}

ToffoliCalls ==
  UNION {{Call("TOFFOLI", "-", c1, c2, t, n) :
            c1 \in Indices(n), c2 \in Indices(n), t \in Indices(n)} : n \in Sizes}

GhzCalls == {Call("generate_ghz_state", "-", 0, 0, 0, n) : n \in Sizes}

Pending == [err |-> "running", op |-> NoOp]

\* the functions are pure and keep no state between calls: a behaviour is one
\* call, from its arguments to what it returns or raises
Init ==
  /\ call \in AddGateCalls \cup ControlGateCalls \cup CnotAdjCalls
               \cup CnotNonadjCalls \cup ToffoliCalls \cup GhzCalls
  /\ result = Pending
  /\ pc = "call"
  /\ ghz_state = NoVec
  /\ i = 0

CallAddGate ==
  /\ pc = "call"
  /\ call.fn = "add_gate"
  /\ result' = Return(add_gate(GateOf(call.gate), call.target, call.n))
  /\ pc' = "done"
  /\ UNCHANGED <<call, ghz_state, i>>

CallControlGate ==
  /\ pc = "call"
  /\ call.fn = "control_gate"
  /\ result' = control_gate(GateOf(call.gate), call.control, call.target, call.n)
  /\ pc' = "done"
  /\ UNCHANGED <<call, ghz_state, i>>

CallCnotAdj ==
  /\ pc = "call"
  /\ call.fn = "cnot_adj"
  /\ result' = cnot_adj(call.control, call.target, call.n)
  /\ pc' = "done"
  /\ UNCHANGED <<call, ghz_state, i>>

CallCnotNonadj ==
  /\ pc = "call"
  /\ call.fn = "cnot_nonadj"
  /\ result' = cnot_nonadj(call.control, call.target, call.n)
  /\ pc' = "done"
  /\ UNCHANGED <<call, ghz_state, i>>

CallToffoli ==
  /\ pc = "call"
  /\ call.fn = "TOFFOLI"
  /\ result' = TOFFOLI(call.control, call.control2, call.target, call.n)
  /\ pc' = "done"
  /\ UNCHANGED <<call, ghz_state, i>>

\* ghz_state = kron([zero] * num_qubits); an empty list raises in kron
GhzStart ==
  /\ pc = "call"
  /\ call.fn = "generate_ghz_state"
  /\ IF call.n = 0
       THEN /\ result' = Raise(MsgIndex)
            /\ pc' = "done"
            /\ ghz_state' = NoVec
       ELSE /\ result' = result
            /\ pc' = "hadamard"
            /\ ghz_state' = GhzZeros(call.n)
  /\ UNCHANGED <<call, i>>

\* ghz_state = add_gate(H, 0, num_qubits) @ ghz_state
GhzApplyH ==
  /\ pc = "hadamard"
  /\ ghz_state' = GhzHadamard(ghz_state, call.n)
  /\ pc' = "loop"
  /\ UNCHANGED <<call, result, i>>

\* one iteration of for i in range(num_qubits - 1)
GhzLoop ==
  /\ pc = "loop"
  /\ i < call.n - 1
  /\ ghz_state' = GhzCnot(ghz_state, i, call.n)
  /\ i' = i + 1
  /\ UNCHANGED <<call, result, pc>>

\* return ghz_state
GhzReturn ==
  /\ pc = "loop"
  /\ ~(i < call.n - 1)
  /\ result' = Return(ghz_state)
  /\ pc' = "done"
  /\ UNCHANGED <<call, ghz_state, i>>

Next ==
  \/ CallAddGate
  \/ CallControlGate
  \/ CallCnotAdj
  \/ CallCnotNonadj
  \/ CallToffoli
  \/ GhzStart
  \/ GhzApplyH
  \/ GhzLoop
  \/ GhzReturn

Spec == Init /\ [][Next]_vars

----------------------------------------------------------------------------
\* properties

\* bit q of basis index b in a register of n qubits, qubit 0 most significant
Bit(b, q, n) == (b \div Pow2(n - 1 - q)) % 2

FlipBit(b, q, n) ==
  IF Bit(b, q, n) = 1 THEN b - Pow2(n - 1 - q) ELSE b + Pow2(n - 1 - q)

\* the computational-basis vector |b> of n qubits
Basis(b, n) ==
  [shape |-> <<Pow2(n)>>, a |-> [k \in 0..(Pow2(n) - 1) |-> IF k = b THEN NOne ELSE NZero]]

\* the d x d identity matrix
Identity(d) ==
  [shape |-> <<d, d>>,
   a |-> [k \in 0..(d * d - 1) |-> IF k \div d = k % d THEN NOne ELSE NZero]]

InRegister(q, n) == 0 <= q /\ q <= n - 1

Returned(fn) == pc = "done" /\ call.fn = fn

\* the errors the specification calls InvalidQubitError in the two-qubit
\* synthesizers
InvalidQubitError == {MsgDifferent, MsgError}

\* C1: for n >= 2 and distinct c, t in [0, n-1], in either order, the operator
\* returned by cnot_nonadj(c, t, n) and by control_gate(X, c, t, n) maps every
\* basis state b to b with bit t flipped when bit c of b is 1 and to b itself
\* when bit c is 0.
C1_ControlledXFlipsTarget ==
  (/\ pc = "done"
   /\ call.fn = "cnot_nonadj" \/ (call.fn = "control_gate" /\ call.gate = "X")
   /\ call.n >= 2
   /\ InRegister(call.control, call.n)
   /\ InRegister(call.target, call.n)
   /\ call.control # call.target)
  => /\ result.err = "none"
     /\ result.op.shape = <<Pow2(call.n), Pow2(call.n)>>
     /\ \A b \in 0..(Pow2(call.n) - 1) :
          MatVec(result.op, Basis(b, call.n))
            = Basis(IF Bit(b, call.control, call.n) = 1
                      THEN FlipBit(b, call.target, call.n) ELSE b, call.n)

\* a CNOT with the control after a non-adjacent target has been built
C1_Witness ==
  /\ Returned("cnot_nonadj")
  /\ call.n = 3 /\ call.control = 2 /\ call.target = 0
  /\ result.err = "none"

\* C2: for n >= 3 and pairwise distinct control1, control2, target in
\* [0, n-1], TOFFOLI maps every basis state b to b with the target bit flipped
\* when both control bits are 1 and to b otherwise; TOFFOLI(0, 1, 2, 3) maps
\* |110> to |111> and leaves |100> unchanged.
C2_ToffoliFlipsTarget ==
  (/\ Returned("TOFFOLI")
   /\ call.n >= 3
   /\ InRegister(call.control, call.n)
   /\ InRegister(call.control2, call.n)
   /\ InRegister(call.target, call.n)
   /\ call.control # call.control2
   /\ call.control # call.target
   /\ call.control2 # call.target)
  => /\ result.err = "none"
     /\ result.op.shape = <<Pow2(call.n), Pow2(call.n)>>
     /\ \A b \in 0..(Pow2(call.n) - 1) :
          MatVec(result.op, Basis(b, call.n))
            = Basis(IF Bit(b, call.control, call.n) = 1
                       /\ Bit(b, call.control2, call.n) = 1
                      THEN FlipBit(b, call.target, call.n) ELSE b, call.n)
     /\ (call.n = 3 /\ call.control = 0 /\ call.control2 = 1 /\ call.target = 2)
        => /\ MatVec(result.op, Basis(6, 3)) = Basis(7, 3)
           /\ MatVec(result.op, Basis(4, 3)) = Basis(4, 3)

\* a Toffoli with the controls given in descending order around the target
C2_Witness ==
  /\ Returned("TOFFOLI")
  /\ call.n = 3 /\ call.control = 2 /\ call.control2 = 0 /\ call.target = 1
  /\ result.err = "none"

\* C3: for n >= 2 and i in [0, n-2], cnot_adj(i, i+1, n) returns the same
\* operator, entry for entry, as cnot_nonadj(i, i+1, n).
C3_AdjacentEqualsGeneral ==
  (/\ Returned("cnot_adj")
   /\ call.n >= 2
   /\ 0 <= call.control /\ call.control <= call.n - 2
   /\ call.target = call.control + 1)
  => /\ result.err = "none"
     /\ result = cnot_nonadj(call.control, call.target, call.n)

\* the fast path has returned a CNOT on the last two qubits of three
C3_Witness ==
  /\ Returned("cnot_adj")
  /\ call.n = 3 /\ call.control = 1 /\ call.target = 2
  /\ result.err = "none"

\* C4: for n >= 1, t in [0, n-1] and a 2x2 gate G, add_gate(G, t, n) is the
\* 2^n x 2^n operator whose entry (r, c) is G[bit_t(r), bit_t(c)] when r and c
\* agree on every bit other than bit t and 0 otherwise (bit 0 most
\* significant); add_gate(I, t, n) is the identity matrix.
C4_EmbedEntries ==
  (/\ Returned("add_gate")
   /\ call.n >= 1
   /\ InRegister(call.target, call.n))
  => /\ result.err = "none"
     /\ result.op.shape = <<Pow2(call.n), Pow2(call.n)>>
     /\ \A r \in 0..(Pow2(call.n) - 1), c \in 0..(Pow2(call.n) - 1) :
          At(result.op, r, c)
            = IF \A q \in 0..(call.n - 1) :
                   q # call.target => Bit(r, q, call.n) = Bit(c, q, call.n)
                THEN At(GateOf(call.gate), Bit(r, call.target, call.n),
                        Bit(c, call.target, call.n))
                ELSE NZero
     /\ call.gate = "I" => result.op = Identity(Pow2(call.n))

\* the Hadamard has been embedded at the middle qubit of three
C4_Witness ==
  /\ Returned("add_gate")
  /\ call.n = 3 /\ call.target = 1 /\ call.gate = "H"
  /\ result.err = "none"

\* C5: for n >= 2 and distinct c, t in [0, n-1], in either order,
\* control_gate(I, c, t, n) is the 2^n x 2^n identity matrix.
C5_ControlledIdentity ==
  (/\ Returned("control_gate")
   /\ call.gate = "I"
   /\ call.n >= 2
   /\ InRegister(call.control, call.n)
   /\ InRegister(call.target, call.n)
   /\ call.control # call.target)
  => /\ result.err = "none"
     /\ result.op = Identity(Pow2(call.n))

\* a controlled identity with the control after the target has been built
C5_Witness ==
  /\ Returned("control_gate")
  /\ call.gate = "I"
  /\ call.n = 3 /\ call.control = 2 /\ call.target = 0
  /\ result.err = "none"

C7_EqualControlTargetFails ==
  (/\ pc = "done"
   /\ call.fn = "cnot_nonadj" \/ (call.fn = "control_gate" /\ call.gate = "X")
   /\ call.control = call.target)
  => /\ result.err \in InvalidQubitError
     /\ result.op = NoOp

\* control_gate(X, 1, 1, 3) has failed
C7_Witness ==
  /\ Returned("control_gate")
  /\ call.gate = "X"
  /\ call.n = 3 /\ call.control = 1 /\ call.target = 1
  /\ result.err = MsgDifferent

\* C8: cnot_adj fails with the not-adjacent error and returns no operator
\* whenever target # control + 1, and does not fail with that error when
\* target = control + 1.
C8_NotAdjacentFails ==
  Returned("cnot_adj")
  => /\ call.target # call.control + 1
        => (result.err = MsgAdjacent /\ result.op = NoOp)
     /\ call.target = call.control + 1 => result.err # MsgAdjacent

\* cnot_adj(0, 2, 3) has failed
C8_Witness ==
  /\ Returned("cnot_adj")
  /\ call.n = 3 /\ call.control = 0 /\ call.target = 2
  /\ result.err = MsgAdjacent

\* C9: for every call of TOFFOLI with target different from both controls and
\* all three indices in [0, n-1] (control1 = control2 included), each of the
\* four summed terms is a tensor product of exactly n 2x2 factors and the
\* returned operator is 2^n x 2^n.
C9_ToffoliTermsSpanRegister ==
  (/\ Returned("TOFFOLI")
   /\ call.target # call.control
   /\ call.target # call.control2
   /\ InRegister(call.control, call.n)
   /\ InRegister(call.control2, call.n)
   /\ InRegister(call.target, call.n))
  => /\ result.err = "none"
     /\ \A k \in 1..4 :
          Len(ToffoliTerms(call.control, call.control2, call.target, call.n)[k])
            = call.n
     /\ result.op.shape = <<Pow2(call.n), Pow2(call.n)>>

\* C10: every operator returned without an error by control_gate,
\* cnot_nonadj or cnot_adj is a 2^n x 2^n matrix for the n passed as
\* num_qubits, also when an index equals num_qubits and, for cnot_adj, when
\* control = n - 1 or control < 0.
C10_ReturnedOperatorIsRegisterSized ==
  (/\ pc = "done"
   /\ call.fn \in {"control_gate", "cnot_nonadj", "cnot_adj"}
   /\ result.err = "none")
  => result.op.shape = <<Pow2(call.n), Pow2(call.n)>>

====
